---- MODULE Spec2Model ----
(***************************************************************************)
(* Model of the marketplace workflows of UranButeel-2.0:                   *)
(*   - the proposal review / hire page   (pages/manage-jobs/[id].tsx)      *)
(*   - the job details / proposal form   (pages/Jobs/[id].tsx)             *)
(*   - the contract dashboard/milestones (pages/contracts/[id].tsx)        *)
(*   - the simulated invoice endpoint    (pages/api/qpay.ts)               *)
(* The record store (Supabase) is the shared state; every page instance    *)
(* (browser tab) is a session with its own React state.  Every awaited     *)
(* store call is one step: the store applies the call (or returns an       *)
(* error) and the page runs the code up to its next await.                 *)
(***************************************************************************)
EXTENDS Integers, Sequences, FiniteSets, TLC

\* ------------------------------------------------------------------ bounds
NumSessions == 2        \* review-page tabs open at once
NumDash == 2            \* contract-dashboard tabs open at once
NumMilestones == 2      \* milestones of the contract
MaxProposals == 2       \* rows the proposals table may hold
MaxContracts == 2       \* rows the contracts table may hold
MaxTicks == 4           \* clock readings after the first one
MaxRequests == 3        \* requests the invoice endpoint handles

\* --------------------------------------------------------------- constants
NULL == "null"
Sessions == 1..NumSessions
JobSessions == {1}
Projects == {1, 2}
Users == {"c1", "c2", "f1", "f2"}
Freelancers == {"f1", "f2"}
\* who opens which page: one user of each kind the page's gates tell apart.
\* The review page is opened on project 1 (by its owner c1, by another client,
\* by a freelancer); project 2 is a second project with proposals of its own.
ReviewUsers == {"c1", "c2", "f1"}
ReviewedProjects == {1}
JobUsers == {"f1", "f2", "c1"}

\* profiles.role of each user (set once at signup)
profileRole == [u \in Users |-> IF u \in Freelancers THEN "freelancer" ELSE "client"]
\* projects.client_id and projects.budget, as post-job inserted them
projClient == [p \in Projects |-> IF p = 1 THEN "c1" ELSE "c2"]
projBudget == [p \in Projects |-> IF p = 1 THEN 50 ELSE 80]

\* what the bid input may hold, and parseFloat of it
BidInputs == {"", "0", "10"}
ParseFloat(str) == CASE str = "0" -> 0 [] str = "10" -> 10

HireStages == {"insert", "updProject", "accept", "reject"}

VARIABLES
  projStatus,   \* projects.status by project id
  proposals,    \* the proposals table, in insertion order (index = id)
  contracts,    \* the contracts table, in insertion order
  review,       \* ReviewProposalsPage instances (React state + position)
  jobs,         \* JobDetailsPage instances
  msStatus,     \* milestones.status by milestone id
  dash,         \* ContractDashboard instances (React state + position)
  invoices,     \* own properties of the invoices object of the endpoint
  timers,       \* setTimeout callbacks that have not run yet
  clock,        \* Date.now()
  resp          \* the latest request of the endpoint and its response

hvars == <<projStatus, proposals, contracts, review, jobs>>
mvars == <<msStatus, dash>>
ivars == <<invoices, timers, clock, resp>>
vars == <<hvars, mvars, ivars>>
\* what the pages of the hire workflow never touch
nonHire == <<mvars, ivars>>
\* what the contract dashboard never touches
nonDash == <<hvars, ivars>>
\* what the invoice endpoint never touches
nonInv == <<hvars, mvars>>

DashSessions == 1..NumDash
Milestones == 1..NumMilestones
\* the contract the dashboard is opened on, and who opens it: its client, its
\* freelancer, a client who is no party to it
dashContract == [client_id |-> "c1", freelancer_id |-> "f1"]
DashUsers == {"c1", "f1", "c2"}
NoMilestones == [m \in Milestones |-> "none"]

\* ---- the invoice endpoint's values
\* the delay of the payment timer, and the step of the clock: half of it
TimerDelayMs == 10000
TickMs == TimerDelayMs \div 2
ClockValues == {k * TickMs : k \in 0..MaxTicks}

\* JavaScript values of a request: a field that is absent, a number, a string
Undefined == [type |-> "undefined", val |-> 0]
Num(n) == [type |-> "number", val |-> n]
Absent == [type |-> "undefined", val |-> ""]
Str(s) == [type |-> "string", val |-> s]
IsArray == [type |-> "array", val |-> ""]

\* the invoices object starts without own properties
NoInvoices == [k \in {} |-> 0]
\* property names every object literal inherits from Object.prototype
ObjectPrototypeKeys == {"constructor", "__proto__"}

Methods == {"POST", "GET", "PUT", "DELETE"}
Amounts == {Undefined, Num(0), Num(-5), Num(100)}
ContractIds == {Absent, Str(""), Str("c1")}
MilestoneIds == {Absent, Str("m1")}

NoResponse ==
  [seq |-> 0, method |-> "none", amount |-> Undefined, contractId |-> Absent,
   milestoneId |-> Absent, invoice_id |-> Absent, code |-> 0,
   id |-> "", status |-> "none"]

\* useState initial values of ContractDashboard
DashInit ==
  [pc |-> "closed", user |-> NULL, profPc |-> "none", hasProfile |-> FALSE,
   hasContract |-> FALSE, milestones |-> NoMilestones, loading |-> TRUE,
   error |-> NULL, actionLoading |-> FALSE, mid |-> 0, newStatus |-> "none"]

ProposalIds == 1..MaxProposals
NoProps == [i \in ProposalIds |-> "none"]

\* useState initial values of ReviewProposalsPage.  hasProject/status are the
\* loaded project (null or its status), props the loaded proposals' statuses.
\* errs holds the steps of the latest handleHire whose store call resolved
\* with an error: the { error } each await returns, read or not by the code.
ReviewInit ==
  [pc |-> "closed", user |-> NULL, id |-> 0, role |-> NULL,
   hasProject |-> FALSE, status |-> "none", props |-> NoProps,
   loading |-> TRUE, message |-> NULL, actionLoading |-> 0, errs |-> {}]

\* useState initial values of JobDetailsPage
JobInit ==
  [pc |-> "closed", user |-> NULL, id |-> 0, hasJob |-> FALSE, role |-> NULL,
   loadingJob |-> TRUE, submitting |-> FALSE, message |-> NULL, bid |-> ""]

Init ==
  /\ projStatus = [p \in Projects |-> "open"]
  /\ proposals = <<>>
  /\ contracts = <<>>
  /\ review = [s \in Sessions |-> ReviewInit]
  /\ jobs = [j \in JobSessions |-> JobInit]
  /\ msStatus = [m \in Milestones |-> "pending"]
  /\ dash = [d \in DashSessions |-> DashInit]
  /\ invoices = NoInvoices
  /\ timers = {}
  /\ clock = 0
  /\ resp = NoResponse

\* ----------------------------------------------------- JobDetailsPage
\* The page is opened for job id by logged-in user u.  The two freelancers
\* are interchangeable: f1 is the one who submits first.
JobOpen(j, u, id) ==
  /\ jobs[j].pc \in {"closed", "ready"}
  /\ u = "f2" => Len(proposals) >= 1
  /\ jobs' = [jobs EXCEPT ![j] = [JobInit EXCEPT !.pc = "fetchJob", !.user = u, !.id = id]]
  /\ UNCHANGED <<projStatus, proposals, contracts, review, nonHire>>

\* fetchJob: the project row (without its status) and the profile role.
JobFetch(j) ==
  /\ jobs[j].pc = "fetchJob"
  /\ \E jobOk \in BOOLEAN, profOk \in BOOLEAN :
       jobs' = [jobs EXCEPT ![j].pc = "ready",
                            ![j].hasJob = jobOk,
                            ![j].role = IF profOk THEN profileRole[jobs[j].user] ELSE NULL,
                            ![j].loadingJob = FALSE]
  /\ UNCHANGED <<projStatus, proposals, contracts, review, nonHire>>

\* The proposal form is rendered (role gate of the render).
FormShown(j) ==
  /\ jobs[j].pc = "ready"
  /\ ~jobs[j].loadingJob
  /\ jobs[j].hasJob
  /\ jobs[j].role = "freelancer"

\* handleSubmitProposal up to its insert call.
SubmitProposal(j, bid) ==
  /\ FormShown(j)
  /\ ~jobs[j].submitting
  /\ IF bid = "" \/ ParseFloat(bid) <= 0
       THEN jobs' = [jobs EXCEPT ![j].message = "badBid"]
       ELSE jobs' = [jobs EXCEPT ![j].message = NULL, ![j].submitting = TRUE,
                                 ![j].bid = bid, ![j].pc = "insertProposal"]
  /\ UNCHANGED <<projStatus, proposals, contracts, review, nonHire>>

\* The proposals insert and the rest of handleSubmitProposal.
InsertProposal(j) ==
  /\ jobs[j].pc = "insertProposal"
  /\ \/ /\ Len(proposals) < MaxProposals
        /\ proposals' = Append(proposals,
             [project_id |-> jobs[j].id, freelancer_id |-> jobs[j].user,
              proposed_budget |-> ParseFloat(jobs[j].bid), status |-> "pending"])
        /\ jobs' = [jobs EXCEPT ![j].pc = "ready", ![j].message = "sent",
                                ![j].bid = "", ![j].submitting = FALSE]
     \/ /\ proposals' = proposals
        /\ jobs' = [jobs EXCEPT ![j].pc = "ready", ![j].message = "proposalError",
                                ![j].submitting = FALSE]
  /\ UNCHANGED <<projStatus, contracts, review, nonHire>>

\* ------------------------------------------------- ReviewProposalsPage
\* The rows of the proposals table of project id, as the page selects them:
\* each row's status, "none" for an id that is not a row of the project.
SelectProposals(id) ==
  [i \in ProposalIds |->
     IF i <= Len(proposals) /\ proposals[i].project_id = id
       THEN proposals[i].status ELSE "none"]

\* The page is opened for project id by logged-in user u; fetchData reads
\* the profile (role), which may fail.  Tabs are interchangeable: tab s+1
\* is opened after tab s.
ReviewOpen(s, u, id) ==
  /\ review[s].pc = "closed"
  /\ \A r \in Sessions : r < s => review[r].pc # "closed"
  /\ \E profOk \in BOOLEAN :
       review' = [review EXCEPT ![s] =
         IF profOk
           THEN [ReviewInit EXCEPT !.pc = "fetchProject", !.user = u, !.id = id,
                                   !.role = profileRole[u]]
           ELSE [ReviewInit EXCEPT !.pc = "ready", !.user = u, !.id = id,
                                   !.loading = FALSE]]
  /\ UNCHANGED <<projStatus, proposals, contracts, jobs, nonHire>>

\* FetchProject without the owner test: the proposals are fetched for any
\* caller whose project read succeeds.
FetchProject_NoOwnerTest(s) ==
  /\ review[s].pc = "fetchProject"
  /\ \E ok \in BOOLEAN :
       review' = [review EXCEPT ![s] =
         IF ~ok
           THEN [@ EXCEPT !.pc = "ready", !.loading = FALSE]
           ELSE [@ EXCEPT !.pc = "fetchProposals", !.hasProject = TRUE,
                          !.status = projStatus[review[s].id]]]
  /\ UNCHANGED <<projStatus, proposals, contracts, jobs, nonHire>>

\* fetchData: the project row; then the owner test decides whether the
\* proposals are fetched at all.
FetchProject(s) ==
  /\ review[s].pc = "fetchProject"
  /\ \E ok \in BOOLEAN :
       review' = [review EXCEPT ![s] =
         IF ~ok
           THEN [@ EXCEPT !.pc = "ready", !.loading = FALSE]
           ELSE IF review[s].role = "client" /\ projClient[review[s].id] = review[s].user
             THEN [@ EXCEPT !.pc = "fetchProposals", !.hasProject = TRUE,
                            !.status = projStatus[review[s].id]]
             ELSE [@ EXCEPT !.pc = "ready", !.hasProject = TRUE,
                            !.status = projStatus[review[s].id], !.loading = FALSE]]
  /\ UNCHANGED <<projStatus, proposals, contracts, jobs, nonHire>>

\* fetchData: the proposals of the project (kept only when the read succeeds).
FetchProposals(s) ==
  /\ review[s].pc = "fetchProposals"
  /\ \E ok \in BOOLEAN :
       review' = [review EXCEPT ![s].pc = "ready", ![s].loading = FALSE,
                                ![s].props = IF ok THEN SelectProposals(review[s].id) ELSE @]
  /\ UNCHANGED <<projStatus, proposals, contracts, jobs, nonHire>>

\* What the page renders: the loading text, the clients-only notice, or the
\* project with its proposal list.
View(s) ==
  IF review[s].loading THEN "loading"
  ELSE IF ~review[s].hasProject \/ review[s].role # "client" THEN "clientsOnly"
  ELSE "page"

\* The Hire button of proposal p is rendered and enabled.
HireButton(s, p) ==
  /\ review[s].pc = "ready"
  /\ View(s) = "page"
  /\ review[s].props[p] = "pending"
  /\ review[s].actionLoading = 0

\* handleHire(p) up to the contracts insert call.  While the hire is in
\* flight actionLoading holds the id of the proposal being hired.
HireClick(s, p) ==
  /\ HireButton(s, p)
  /\ review' = [review EXCEPT ![s] =
       IF ~@.hasProject
         THEN [@ EXCEPT !.message = "notFound", !.actionLoading = 0, !.errs = {}]
         ELSE [@ EXCEPT !.message = NULL, !.actionLoading = p, !.errs = {},
                        !.pc = "insert"]]
  /\ UNCHANGED <<projStatus, proposals, contracts, jobs, nonHire>>

\* NewContract that always takes the project's budget as total_amount.
NewContract_ProjectBudget(s, p) ==
  [project_id |-> review[s].id,
   client_id |-> projClient[review[s].id],
   freelancer_id |-> proposals[p].freelancer_id,
   total_amount |-> projBudget[review[s].id],
   status |-> "active"]

\* The contract row handleHire inserts for proposal p of the loaded project.
NewContract(s, p) ==
  [project_id |-> review[s].id,
   client_id |-> projClient[review[s].id],
   freelancer_id |-> proposals[p].freelancer_id,
   \* proposed_budget ?? budget (0 stands for a null proposed_budget)
   total_amount |-> IF proposals[p].proposed_budget # 0
                      THEN proposals[p].proposed_budget
                      ELSE projBudget[review[s].id],
   status |-> "active"]

\* HireInsert that shows the insert error but goes on to the next step.
HireInsert_ContinueOnError(s) ==
  /\ review[s].pc = "insert"
  /\ \/ /\ Len(contracts) < MaxContracts
        /\ contracts' = Append(contracts, NewContract(s, review[s].actionLoading))
        /\ review' = [review EXCEPT ![s].pc = "updProject"]
     \/ /\ contracts' = contracts
        /\ review' = [review EXCEPT ![s].pc = "updProject", ![s].message = "insertError",
                                    ![s].errs = @ \cup {"insert"}]
  /\ UNCHANGED <<projStatus, proposals, jobs, nonHire>>

\* HireInsert that stops on the insert error without showing it.
HireInsert_SilentError(s) ==
  /\ review[s].pc = "insert"
  /\ \/ /\ Len(contracts) < MaxContracts
        /\ contracts' = Append(contracts, NewContract(s, review[s].actionLoading))
        /\ review' = [review EXCEPT ![s].pc = "updProject"]
     \/ /\ contracts' = contracts
        /\ review' = [review EXCEPT ![s].pc = "ready",
                                    ![s].errs = @ \cup {"insert"},
                                    ![s].actionLoading = 0]
  /\ UNCHANGED <<projStatus, proposals, jobs, nonHire>>

\* Step 1: insert the contract; on an error show it and stop.
HireInsert(s) ==
  /\ review[s].pc = "insert"
  /\ \/ /\ Len(contracts) < MaxContracts
        /\ contracts' = Append(contracts, NewContract(s, review[s].actionLoading))
        /\ review' = [review EXCEPT ![s].pc = "updProject"]
     \/ /\ contracts' = contracts
        /\ review' = [review EXCEPT ![s].pc = "ready", ![s].message = "insertError",
                                    ![s].errs = @ \cup {"insert"},
                                    ![s].actionLoading = 0]
  /\ UNCHANGED <<projStatus, proposals, jobs, nonHire>>

\* Step 2: set the project in_progress; on an error show it and stop.
HireUpdateProject(s) ==
  /\ review[s].pc = "updProject"
  /\ \/ /\ projStatus' = [projStatus EXCEPT ![review[s].id] = "in_progress"]
        /\ review' = [review EXCEPT ![s].pc = "accept"]
     \/ /\ projStatus' = projStatus
        /\ review' = [review EXCEPT ![s].pc = "ready", ![s].message = "updateError",
                                    ![s].errs = @ \cup {"update"},
                                    ![s].actionLoading = 0]
  /\ UNCHANGED <<proposals, contracts, jobs, nonHire>>

\* Step 3: mark the chosen proposal accepted; the call's error is not read.
HireAccept(s) ==
  /\ review[s].pc = "accept"
  /\ \/ /\ proposals' = [proposals EXCEPT ![review[s].actionLoading].status = "accepted"]
        /\ review' = [review EXCEPT ![s].pc = "reject"]
     \/ /\ proposals' = proposals
        /\ review' = [review EXCEPT ![s].pc = "reject", ![s].errs = @ \cup {"accept"}]
  /\ UNCHANGED <<projStatus, contracts, jobs, nonHire>>

\* The local refresh at the end of handleHire.
LocalRefresh(s) ==
  [review[s] EXCEPT
     !.pc = "ready", !.message = "success", !.status = "in_progress",
     !.props = [i \in ProposalIds |->
                  IF @[i] = "none" THEN "none"
                  ELSE IF i = review[s].actionLoading THEN "accepted" ELSE "rejected"],
     !.actionLoading = 0]

\* Step 4: mark the project's other proposals rejected (error not read), then
\* the success message and the local refresh.
HireReject(s) ==
  /\ review[s].pc = "reject"
  /\ \/ /\ proposals' = [i \in 1..Len(proposals) |->
             IF i # review[s].actionLoading /\ proposals[i].project_id = review[s].id
               THEN [proposals[i] EXCEPT !.status = "rejected"]
               ELSE proposals[i]]
        /\ review' = [review EXCEPT ![s] = LocalRefresh(s)]
     \/ /\ proposals' = proposals
        /\ review' = [review EXCEPT ![s] = [LocalRefresh(s) EXCEPT !.errs = @ \cup {"reject"}]]
  /\ UNCHANGED <<projStatus, contracts, jobs, nonHire>>

Next ==
  \/ \E j \in JobSessions, u \in JobUsers, id \in Projects : JobOpen(j, u, id)
  \/ \E j \in JobSessions : JobFetch(j)
  \/ \E j \in JobSessions, bid \in BidInputs : SubmitProposal(j, bid)
  \/ \E j \in JobSessions : InsertProposal(j)
  \/ \E s \in Sessions, u \in ReviewUsers, id \in ReviewedProjects : ReviewOpen(s, u, id)
  \/ \E s \in Sessions : FetchProject(s)
  \/ \E s \in Sessions : FetchProposals(s)
  \/ \E s \in Sessions, p \in ProposalIds : HireClick(s, p)
  \/ \E s \in Sessions : HireInsert(s)
  \/ \E s \in Sessions : HireUpdateProject(s)
  \/ \E s \in Sessions : HireAccept(s)
  \/ \E s \in Sessions : HireReject(s)

Spec == Init /\ [][Next]_vars

\* ---- the contract row as a function of the proposal row
\* proposed_budget is number | null (0 stands for null): the review page is
\* run over proposal rows of project 1 with and without a proposed budget.
SeedBudgets == {0, 10}
SeedProposal(f, b) ==
  [project_id |-> 1, freelancer_id |-> f, proposed_budget |-> b, status |-> "pending"]
InitSeed ==
  /\ projStatus = [p \in Projects |-> "open"]
  /\ \E b1 \in SeedBudgets, b2 \in SeedBudgets :
       proposals = <<SeedProposal("f1", b1), SeedProposal("f2", b2)>>
  /\ contracts = <<>>
  /\ review = [s \in Sessions |-> ReviewInit]
  /\ jobs = [j \in JobSessions |-> JobInit]
  /\ msStatus = [m \in Milestones |-> "pending"]
  /\ dash = [d \in DashSessions |-> DashInit]
  /\ invoices = NoInvoices
  /\ timers = {}
  /\ clock = 0
  /\ resp = NoResponse

NextSeed ==
  \/ \E s \in Sessions, u \in ReviewUsers, id \in ReviewedProjects : ReviewOpen(s, u, id)
  \/ \E s \in Sessions : FetchProject(s)
  \/ \E s \in Sessions : FetchProposals(s)
  \/ \E s \in Sessions, p \in ProposalIds : HireClick(s, p)
  \/ \E s \in Sessions : HireInsert(s)
  \/ \E s \in Sessions : HireUpdateProject(s)
  \/ \E s \in Sessions : HireAccept(s)
  \/ \E s \in Sessions : HireReject(s)

SpecSeed == InitSeed /\ [][NextSeed]_vars
\* ---------------------------------------------------- ContractDashboard
\* The page is opened by logged-in user u: the effect starts fetchProfile and
\* fetchContractAndMilestones, which run side by side.
DashOpen(d, u) ==
  /\ dash[d].pc = "closed"
  /\ \A e \in DashSessions : e < d => dash[e].pc # "closed"
  /\ dash' = [dash EXCEPT ![d] = [DashInit EXCEPT !.pc = "contract", !.user = u,
                                                  !.profPc = "fetching"]]
  /\ UNCHANGED <<msStatus, nonDash>>

\* fetchProfile: setProfile(data), data being null when the read fails.
FetchProfile(d) ==
  /\ dash[d].profPc = "fetching"
  /\ \E ok \in BOOLEAN :
       dash' = [dash EXCEPT ![d].profPc = "done", ![d].hasProfile = ok]
  /\ UNCHANGED <<msStatus, nonDash>>

\* FetchContract whose failure does not end the calling
\* updateMilestoneStatus (no finally).
FetchContract_NoFinally(d) ==
  /\ dash[d].pc = "contract"
  /\ \/ dash' = [dash EXCEPT ![d].pc = "milestones", ![d].hasContract = TRUE]
     \/ dash' = [dash EXCEPT ![d].pc = "ready", ![d].error = "loadError",
                             ![d].loading = FALSE]
  /\ UNCHANGED <<msStatus, nonDash>>

\* fetchContractAndMilestones, the contract read.  When the function was
\* called by updateMilestoneStatus its return also ends that call (finally).
FetchContract(d) ==
  /\ dash[d].pc = "contract"
  /\ \/ dash' = [dash EXCEPT ![d].pc = "milestones", ![d].hasContract = TRUE]
     \/ dash' = [dash EXCEPT ![d].pc = "ready", ![d].error = "loadError",
                             ![d].loading = FALSE, ![d].actionLoading = FALSE]
  /\ UNCHANGED <<msStatus, nonDash>>

\* fetchContractAndMilestones, the milestones read.
FetchMilestones(d) ==
  /\ dash[d].pc = "milestones"
  /\ \/ dash' = [dash EXCEPT ![d].pc = "ready", ![d].milestones = msStatus,
                             ![d].loading = FALSE, ![d].actionLoading = FALSE]
     \/ dash' = [dash EXCEPT ![d].pc = "ready", ![d].error = "loadError",
                             ![d].loading = FALSE, ![d].actionLoading = FALSE]
  /\ UNCHANGED <<msStatus, nonDash>>

\* isClient that tests the role but not the contract's client_id.
isClient_RoleOnly(d) ==
  /\ dash[d].hasProfile
  /\ profileRole[dash[d].user] = "client"
  /\ dash[d].hasContract

\* the role checks of the render
isClient(d) ==
  /\ dash[d].hasProfile
  /\ profileRole[dash[d].user] = "client"
  /\ dash[d].hasContract
  /\ dashContract.client_id = dash[d].user
isFreelancer(d) ==
  /\ dash[d].hasProfile
  /\ profileRole[dash[d].user] = "freelancer"
  /\ dash[d].hasContract
  /\ dashContract.freelancer_id = dash[d].user

\* DashView without the participant test of the authorization gate.
DashView_NoGate(d) ==
  IF dash[d].loading THEN "loading"
  ELSE IF ~dash[d].hasContract THEN "denied"
  ELSE "page"

\* What the dashboard renders.
DashView(d) ==
  IF dash[d].loading THEN "loading"
  ELSE IF ~dash[d].hasContract \/ (~isClient(d) /\ ~isFreelancer(d)) THEN "denied"
  ELSE "page"

\* The button of milestone m that asks for newStatus is rendered and enabled.
ActionButton(d, m, newStatus) ==
  /\ dash[d].pc # "closed"
  /\ DashView(d) = "page"
  /\ ~dash[d].actionLoading
  /\ CASE newStatus = "funded" -> isClient(d) /\ dash[d].milestones[m] = "pending"
       [] newStatus = "released" -> isClient(d) /\ dash[d].milestones[m] \in {"funded", "in_review"}
       [] newStatus = "in_review" -> isFreelancer(d) /\ dash[d].milestones[m] = "funded"

\* updateMilestoneStatus(m, newStatus) up to its update call.
updateMilestoneStatus(d, m, newStatus) ==
  /\ ActionButton(d, m, newStatus)
  /\ dash' = [dash EXCEPT ![d].actionLoading = TRUE, ![d].error = NULL,
                          ![d].mid = m, ![d].newStatus = newStatus,
                          ![d].pc = "update"]
  /\ UNCHANGED <<msStatus, nonDash>>

handleFund(d, m) == updateMilestoneStatus(d, m, "funded")
handleRelease(d, m) == updateMilestoneStatus(d, m, "released")
handleSubmit(d, m) == updateMilestoneStatus(d, m, "in_review")

\* UpdateMilestone that also creates a pending invoice when it funds.
UpdateMilestone_WithInvoice(d) ==
  /\ dash[d].pc = "update"
  /\ \/ /\ msStatus' = [msStatus EXCEPT ![dash[d].mid] = dash[d].newStatus]
        /\ dash' = [dash EXCEPT ![d].pc = "contract", ![d].loading = TRUE,
                                ![d].error = NULL]
        /\ invoices' = IF dash[d].newStatus = "funded"
                         THEN [k \in DOMAIN invoices \cup {"MOCK"} |->
                                 [status |-> "pending", createdAt |-> clock]]
                         ELSE invoices
     \/ /\ msStatus' = msStatus
        /\ dash' = [dash EXCEPT ![d].pc = "ready", ![d].error = "updateError",
                                ![d].actionLoading = FALSE]
        /\ invoices' = invoices
  /\ UNCHANGED <<hvars, timers, clock, resp>>

\* The milestones update of updateMilestoneStatus: on success the reload
\* starts (setLoading(true)), on an error the message is shown.
UpdateMilestone(d) ==
  /\ dash[d].pc = "update"
  /\ \/ /\ msStatus' = [msStatus EXCEPT ![dash[d].mid] = dash[d].newStatus]
        /\ dash' = [dash EXCEPT ![d].pc = "contract", ![d].loading = TRUE,
                                ![d].error = NULL]
     \/ /\ msStatus' = msStatus
        /\ dash' = [dash EXCEPT ![d].pc = "ready", ![d].error = "updateError",
                                ![d].actionLoading = FALSE]
  /\ UNCHANGED nonDash

NextMs ==
  \/ \E d \in DashSessions, u \in DashUsers : DashOpen(d, u)
  \/ \E d \in DashSessions : FetchProfile(d)
  \/ \E d \in DashSessions : FetchContract(d)
  \/ \E d \in DashSessions : FetchMilestones(d)
  \/ \E d \in DashSessions, m \in Milestones : handleFund(d, m)
  \/ \E d \in DashSessions, m \in Milestones : handleRelease(d, m)
  \/ \E d \in DashSessions, m \in Milestones : handleSubmit(d, m)
  \/ \E d \in DashSessions : UpdateMilestone(d)

SpecMs == Init /\ [][NextMs]_vars

\* ------------------------------------------------ invoice endpoint (qpay)
\* invoiceId with a fixed text in place of the clock reading.
MockId_Fixed(now) == "MOCK-0"

\* `MOCK-${Date.now()}`
MockId(now) == "MOCK-" \o ToString(now)

\* invoice ids a poll may ask for: every id the endpoint can issue, inherited
\* property names, an id that is never issued, an empty, a missing and a
\* repeated parameter
QueryIds ==
  {Str(MockId(now)) : now \in ClockValues}
    \cup {Str(k) : k \in ObjectPrototypeKeys}
    \cup {Str("MOCK-1"), Str(""), Absent, IsArray}

\* !x that is true of an absent field only.
Falsy_AbsentOnly(x) == x.type = "undefined"

\* !x of JavaScript
Falsy(x) ==
  \/ x.type = "undefined"
  \/ x.type = "number" /\ x.val = 0
  \/ x.type = "string" /\ x.val = ""

\* the time at which the callback runs, with twice the delay.
TimerDue_Twice(now) == now + 2 * TimerDelayMs

\* the time at which the callback of a setTimeout made at now runs
TimerDue(now) == now + TimerDelayMs

\* the POST test with PUT accepted as well.
IsPost_OrPut(method) == method \in {"POST", "PUT"}

\* req.method === 'POST', req.method === 'GET'
IsPost(method) == method = "POST"
IsGet(method) == method = "GET"

\* invoices[key]: an own property, else an inherited one, else undefined.
\* status is the .status of what was found.
Lookup(key) ==
  IF key \in DOMAIN invoices
    THEN [found |-> TRUE, status |-> invoices[key].status]
  ELSE IF key \in ObjectPrototypeKeys
    THEN [found |-> TRUE, status |-> "undefined"]
  ELSE [found |-> FALSE, status |-> "undefined"]

\* the status code and body of the GET branch
GetResponse(invoice_id) ==
  IF Falsy(invoice_id) \/ invoice_id = IsArray
    THEN [code |-> 400, status |-> "none"]
  ELSE IF ~Lookup(invoice_id.val).found
    THEN [code |-> 404, status |-> "none"]
  ELSE [code |-> 200, status |-> Lookup(invoice_id.val).status]

\* handler(req, res): req has the method, the three body fields and the
\* invoice_id of the query; resp' is what res was given.
handler(method, amount, contractId, milestoneId, invoice_id) ==
  /\ resp.seq < MaxRequests
  /\ LET req == [NoResponse EXCEPT !.seq = resp.seq + 1, !.method = method,
                   !.amount = amount, !.contractId = contractId,
                   !.milestoneId = milestoneId, !.invoice_id = invoice_id]
         invoiceId == MockId(clock)
         r == GetResponse(invoice_id)
     IN IF IsPost(method) THEN
          IF Falsy(amount) \/ Falsy(contractId) \/ Falsy(milestoneId)
            THEN /\ resp' = [req EXCEPT !.code = 400]
                 /\ UNCHANGED <<invoices, timers>>
            ELSE /\ invoices' =
                      [k \in DOMAIN invoices \cup {invoiceId} |->
                         IF k = invoiceId
                           THEN [status |-> "pending", createdAt |-> clock]
                           ELSE invoices[k]]
                 /\ timers' = timers \cup
                      {[id |-> invoiceId, due |-> TimerDue(clock), seq |-> req.seq]}
                 /\ resp' = [req EXCEPT !.code = 200, !.id = invoiceId]
        ELSE IF IsGet(method) THEN
          /\ resp' = [req EXCEPT !.code = r.code, !.status = r.status]
          /\ UNCHANGED <<invoices, timers>>
        ELSE
          /\ resp' = [req EXCEPT !.code = 405]
          /\ UNCHANGED <<invoices, timers>>
  /\ UNCHANGED <<clock, nonInv>>

\* the requests the endpoint is sent
CreateInvoice(amount, contractId, milestoneId) ==
  handler("POST", amount, contractId, milestoneId, Absent)
GetInvoiceStatus(invoice_id) ==
  handler("GET", Undefined, Absent, Absent, invoice_id)
OtherMethod(method) ==
  /\ method \notin {"POST", "GET"}
  /\ handler(method, Num(100), Str("c1"), Str("m1"), Str(MockId(0)))

\* the callback of setTimeout: it runs once its time has come.
TimerFire(tm) ==
  /\ tm \in timers
  /\ clock >= tm.due
  /\ timers' = timers \ {tm}
  /\ invoices' = IF Lookup(tm.id).found
                   THEN [invoices EXCEPT ![tm.id].status = "paid"]
                   ELSE invoices
  /\ UNCHANGED <<clock, resp, nonInv>>

\* time passes.  A callback whose time has come runs before the clock shows
\* the next reading.
Tick ==
  /\ clock < MaxTicks * TickMs
  /\ \A tm \in timers : clock < tm.due
  /\ clock' = clock + TickMs
  /\ UNCHANGED <<invoices, timers, resp, nonInv>>

NextInv ==
  \/ \E amount \in Amounts, contractId \in ContractIds, milestoneId \in MilestoneIds :
       CreateInvoice(amount, contractId, milestoneId)
  \/ \E invoice_id \in QueryIds : GetInvoiceStatus(invoice_id)
  \/ \E method \in Methods : OtherMethod(method)
  \/ \E tm \in timers : TimerFire(tm)
  \/ Tick

SpecInv == Init /\ [][NextInv]_vars

\* ====================================================== properties: hire
ContractsOf(P) == {c \in 1..Len(contracts) : contracts[c].project_id = P}
ProposalsOf(P) == {i \in 1..Len(proposals) : proposals[i].project_id = P}
AcceptedOf(P) == {i \in ProposalsOf(P) : proposals[i].status = "accepted"}
ActiveContractsOf(P) == {c \in ContractsOf(P) : contracts[c].status = "active"}
\* the caller of session s is not the client who owns the project of the page
NotOwner(s) ==
  \/ review[s].user # projClient[review[s].id]
  \/ profileRole[review[s].user] # "client"
\* the step is session s leaving its contracts insert call
InsertStep(s) == review[s].pc = "insert" /\ review'[s].pc # "insert"
\* the step is session s leaving handleHire
HireEnds(s) == review[s].pc \in HireStages /\ review'[s].pc = "ready"
Failed(s) == review[s].pc = "ready" /\ review[s].message \notin {NULL, "success"}

\* C1: when a hire on proposal p0 of project P completes (handleHire ran to
\* its end), p0 is accepted, every other proposal of P is rejected and P has
\* exactly one contract.
C1_HirePostcondition ==
  [][\A s \in Sessions :
       (review[s].pc = "reject" /\ review'[s].pc = "ready") =>
         LET p0 == review[s].actionLoading
             P == review[s].id
         IN /\ proposals'[p0].status = "accepted"
            /\ \A i \in ProposalsOf(P)' \ {p0} : proposals'[i].status = "rejected"
            /\ Cardinality(ContractsOf(P)') = 1]_vars

\* C2: in every reachable state each project has at most one active contract
\* and at most one accepted proposal.
C2_AtMostOneActiveAndAccepted ==
  \A P \in Projects :
    /\ Cardinality(ActiveContractsOf(P)) <= 1
    /\ Cardinality(AcceptedOf(P)) <= 1

\* C3: a hire whose project is not open in the store when the writes start
\* inserts no contract and ends as a failure.
C3_NonOpenHireFails ==
  [][\A s \in Sessions :
       (InsertStep(s) /\ projStatus[review[s].id] # "open") =>
         /\ contracts' = contracts
         /\ Failed(s)']_vars

\* C4: the four hire writes are one unit: a hire in which a store call failed
\* reports failure and does not leave a contract for the project beside a
\* project that is still open or proposals that are still pending.
C4_HireAllOrNothing ==
  [][\A s \in Sessions :
       (HireEnds(s) /\ review'[s].errs # {}) =>
         LET P == review[s].id
         IN /\ Failed(s)'
            /\ ~(/\ ContractsOf(P)' # {}
                 /\ \/ projStatus'[P] = "open"
                    \/ \E i \in ProposalsOf(P)' : proposals'[i].status = "pending")]_vars

\* C5: in every state, also in the middle of a hire and after a failed one,
\* an accepted proposal has a contract for its project and freelancer.
C5_AcceptedHasContract ==
  \A i \in 1..Len(proposals) :
    proposals[i].status = "accepted" =>
      \E c \in 1..Len(contracts) :
        /\ contracts[c].project_id = proposals[i].project_id
        /\ contracts[c].freelancer_id = proposals[i].freelancer_id

\* a hire is between its accept and its reject call, the chosen proposal
\* already accepted
C5_Witness ==
  \E s \in Sessions :
    /\ review[s].pc = "reject"
    /\ proposals[review[s].actionLoading].status = "accepted"

\* C6: a hire in which the store call of some step returned an error ends
\* with a failure message; the success message needs all four writes to
\* have succeeded.
C6_FailureSurfaced ==
  \A s \in Sessions :
    (review[s].pc = "ready" /\ review[s].errs # {}) => Failed(s)

\* C7 as stated: a caller who is not the owning client issues no hire write
\* and gets an authorization failure (the clients-only notice).
C7_NonOwnerDenied ==
  \A s \in Sessions :
    (review[s].pc # "closed" /\ NotOwner(s)) =>
      /\ review[s].pc \notin HireStages
      /\ review[s].pc = "ready" => View(s) = "clientsOnly"

\* C7 amended: a caller who is not the owning client never gets a proposal
\* list or a Hire control and issues no hire write; a caller whose role is not
\* client gets the clients-only notice.
C7_NonOwnerCannotHire ==
  \A s \in Sessions :
    (review[s].pc # "closed" /\ NotOwner(s)) =>
      /\ review[s].pc \notin HireStages
      /\ review[s].props = NoProps
      /\ \A p \in ProposalIds : ~HireButton(s, p)
      /\ review[s].message = NULL
      /\ (review[s].pc = "ready" /\ profileRole[review[s].user] # "client")
           => View(s) = "clientsOnly"

\* a client who does not own the project has loaded its page while the
\* project has a pending proposal
C7_Witness ==
  \E s \in Sessions :
    /\ review[s].pc = "ready"
    /\ NotOwner(s)
    /\ review[s].hasProject
    /\ profileRole[review[s].user] = "client"
    /\ \E i \in ProposalsOf(review[s].id) : proposals[i].status = "pending"

\* C8: a hire whose chosen proposal is not pending in the store when the
\* writes start performs no write and ends as a failure.
C8_NonPendingHireFails ==
  [][\A s \in Sessions :
       (InsertStep(s) /\ proposals[review[s].actionLoading].status # "pending") =>
         /\ UNCHANGED <<projStatus, proposals, contracts>>
         /\ Failed(s)']_vars
\* ================================================= properties: milestones
\* the transitions of the milestone state machine
AllowedTransitions ==
  {<<"pending", "funded">>, <<"funded", "in_review">>,
   <<"funded", "released">>, <<"in_review", "released">>}
Rank(st) == CASE st = "pending" -> 0 [] st = "funded" -> 1
              [] st = "in_review" -> 2 [] st = "released" -> 3
\* the step is session d leaving its milestones update call
UpdateStep(d) == dash[d].pc = "update" /\ dash'[d].pc # "update"

\* C9: an update whose transition, judged against the stored status, is not
\* one of the four allowed ones is rejected with an error and leaves the
\* stored status unchanged.
C9_OnlyAllowedTransitions ==
  [][\A d \in DashSessions :
       (UpdateStep(d)
          /\ <<msStatus[dash[d].mid], dash[d].newStatus>> \notin AllowedTransitions) =>
         /\ msStatus' = msStatus
         /\ dash'[d].error # NULL]_vars

\* C10: the stored status of a milestone never regresses in the order
\* pending < funded < in_review < released (so released is final).
C10_StatusMonotonic ==
  [][\A m \in Milestones : Rank(msStatus'[m]) >= Rank(msStatus[m])]_vars
\* the caller of session d is the contract's client / freelancer, by the
\* profiles and contracts rows
IsContractClient(d) ==
  profileRole[dash[d].user] = "client" /\ dash[d].user = dashContract.client_id
IsContractFreelancer(d) ==
  profileRole[dash[d].user] = "freelancer" /\ dash[d].user = dashContract.freelancer_id

\* C11: a milestone update to funded or released is only ever issued by the
\* contract's client, one to in_review only by the contract's freelancer; any
\* other caller has none of the three actions.
C11_OnlyPartiesAct ==
  \A d \in DashSessions :
    dash[d].pc # "closed" =>
      /\ \A m \in Milestones :
           /\ (ActionButton(d, m, "funded") \/ ActionButton(d, m, "released"))
                => IsContractClient(d)
           /\ ActionButton(d, m, "in_review") => IsContractFreelancer(d)
      /\ (dash[d].pc = "update" /\ dash[d].newStatus \in {"funded", "released"})
           => IsContractClient(d)
      /\ (dash[d].pc = "update" /\ dash[d].newStatus = "in_review")
           => IsContractFreelancer(d)
      /\ (~IsContractClient(d) /\ ~IsContractFreelancer(d)) => dash[d].pc # "update"

\* the client's fund request is in flight while a client who is no party to
\* the contract has the contract loaded
C11_Witness ==
  \E d, e \in DashSessions :
    /\ dash[d].pc = "update" /\ dash[d].newStatus = "funded"
    /\ dash[e].user = "c2" /\ dash[e].pc = "ready" /\ dash[e].hasProfile
    /\ dash[e].hasContract

\* the caller is no participant of the contract, or the profile or the
\* contract is not (yet) loaded
NonParticipant(d) ==
  \/ ~IsContractClient(d) /\ ~IsContractFreelancer(d)
  \/ ~dash[d].hasProfile
  \/ ~dash[d].hasContract

\* C12: for a non-participant, and while or after the profile or contract
\* failed to load, the dashboard never renders the milestone page: once
\* loading is over it shows access-denied, and no action is available or
\* in flight.
C12_NonParticipantDenied ==
  \A d \in DashSessions :
    (dash[d].pc # "closed" /\ NonParticipant(d)) =>
      /\ DashView(d) # "page"
      /\ ~dash[d].loading => DashView(d) = "denied"
      /\ \A m \in Milestones, st \in {"funded", "released", "in_review"} :
           ~ActionButton(d, m, st)
      /\ dash[d].pc # "update"

\* a client who is no party has loaded contract and milestones (one of them
\* already funded) and is shown access-denied
C12_Witness ==
  \E d \in DashSessions :
    /\ dash[d].user = "c2" /\ dash[d].pc = "ready"
    /\ dash[d].hasProfile /\ dash[d].hasContract
    /\ \E m \in Milestones : dash[d].milestones[m] = "funded"

\* C13: when an updateMilestoneStatus whose write succeeded completes, the
\* status the page lists for that milestone is the stored one.
C13_ReadYourWrites ==
  [][\A d \in DashSessions :
       (dash[d].actionLoading /\ dash[d].pc \in {"contract", "milestones"}
          /\ ~dash'[d].actionLoading) =>
         dash'[d].milestones[dash[d].mid] = msStatus'[dash[d].mid]]_vars
\* ---- one dashboard next to the invoice endpoint
\* The page and the endpoint of one funding: a dashboard tab, and requests
\* that create the invoice of the milestone.
FundSessions == {1}
NextFund ==
  \/ \E d \in FundSessions, u \in DashUsers : DashOpen(d, u)
  \/ \E d \in FundSessions : FetchProfile(d)
  \/ \E d \in FundSessions : FetchContract(d)
  \/ \E d \in FundSessions : FetchMilestones(d)
  \/ \E d \in FundSessions, m \in Milestones : handleFund(d, m)
  \/ \E d \in FundSessions, m \in Milestones : handleRelease(d, m)
  \/ \E d \in FundSessions, m \in Milestones : handleSubmit(d, m)
  \/ \E d \in FundSessions : UpdateMilestone(d)
  \/ CreateInvoice(Num(100), Str("c1"), Str("m1"))
  \/ \E invoice_id \in {Str(MockId(0))} : GetInvoiceStatus(invoice_id)
  \/ \E tm \in timers : TimerFire(tm)
  \/ Tick

SpecFund == Init /\ [][NextFund]_vars

\* ---- one review page and one dashboard
\* Project 1 has a pending proposal of each freelancer; its client, or
\* someone else, uses a review page and a contract dashboard.
PageSessions == {1}
InitPages ==
  /\ projStatus = [p \in Projects |-> "open"]
  /\ proposals = <<SeedProposal("f1", 10), SeedProposal("f2", 10)>>
  /\ contracts = <<>>
  /\ review = [s \in Sessions |-> ReviewInit]
  /\ jobs = [j \in JobSessions |-> JobInit]
  /\ msStatus = [m \in Milestones |-> "pending"]
  /\ dash = [d \in DashSessions |-> DashInit]
  /\ invoices = NoInvoices
  /\ timers = {}
  /\ clock = 0
  /\ resp = NoResponse

NextPages ==
  \/ \E s \in PageSessions, u \in ReviewUsers, id \in ReviewedProjects : ReviewOpen(s, u, id)
  \/ \E s \in PageSessions : FetchProject(s)
  \/ \E s \in PageSessions : FetchProposals(s)
  \/ \E s \in PageSessions, p \in ProposalIds : HireClick(s, p)
  \/ \E s \in PageSessions : HireInsert(s)
  \/ \E s \in PageSessions : HireUpdateProject(s)
  \/ \E s \in PageSessions : HireAccept(s)
  \/ \E s \in PageSessions : HireReject(s)
  \/ \E d \in PageSessions, u \in DashUsers : DashOpen(d, u)
  \/ \E d \in PageSessions : FetchProfile(d)
  \/ \E d \in PageSessions : FetchContract(d)
  \/ \E d \in PageSessions : FetchMilestones(d)
  \/ \E d \in PageSessions, m \in Milestones : handleFund(d, m)
  \/ \E d \in PageSessions, m \in Milestones : handleRelease(d, m)
  \/ \E d \in PageSessions, m \in Milestones : handleSubmit(d, m)
  \/ \E d \in PageSessions : UpdateMilestone(d)

SpecPages == InitPages /\ [][NextPages]_vars

\* ================================================== properties: invoices
\* the step is the handler answering a request with the given method
HandlerStep(method) == resp'.seq # resp.seq /\ resp'.method = method
\* the invoice ids createInvoice has returned so far
IssuedIds == DOMAIN invoices

\* C14: an invoice that was created is reported pending by a poll at any clock
\* reading before its delay has elapsed, and paid at any reading after it,
\* without any request in between.
C14_PendingThenPaid ==
  \A id \in IssuedIds :
    /\ clock < invoices[id].createdAt + TimerDelayMs
         => GetResponse(Str(id)) = [code |-> 200, status |-> "pending"]
    /\ clock > invoices[id].createdAt + TimerDelayMs
         => GetResponse(Str(id)) = [code |-> 200, status |-> "paid"]

\* a poll after the delay has answered paid
C14_Witness ==
  \E id \in IssuedIds :
    /\ clock > invoices[id].createdAt + TimerDelayMs
    /\ resp.method = "GET" /\ resp.invoice_id = Str(id)
    /\ resp.code = 200 /\ resp.status = "paid"

\* C15: a successful createInvoice (here: of a positive amount) returns an id
\* no earlier call returned, and leaves every earlier record as it was.
C15_DistinctIds ==
  [][(HandlerStep("POST") /\ resp'.code = 200 /\ resp'.amount.val > 0) =>
       /\ resp'.id \notin IssuedIds
       /\ \A id \in IssuedIds : invoices'[id] = invoices[id]]_vars

\* C16: createInvoice with amount 0 or missing, or with a missing or empty
\* contractId or milestoneId, answers 400, leaves the map as it was and
\* schedules no timer.
C16_InvalidRejected ==
  [][(/\ HandlerStep("POST")
      /\ \/ resp'.amount \in {Undefined, Num(0)}
         \/ resp'.contractId \in {Absent, Str("")}
         \/ resp'.milestoneId \in {Absent, Str("")}) =>
       /\ resp'.code = 400
       /\ invoices' = invoices
       /\ timers' = timers]_vars

\* amount 0 was rejected while an invoice exists
C16_Witness ==
  /\ resp.method = "POST" /\ resp.amount = Num(0) /\ resp.code = 400
  /\ resp.contractId = Str("c1") /\ resp.milestoneId = Str("m1")
  /\ IssuedIds # {}

\* C17: createInvoice succeeds only with an amount above 0 and non-empty ids,
\* and a negative amount is answered 400 with no invoice created.
C17_PositiveAmountOnly ==
  [][HandlerStep("POST") =>
       /\ resp'.code = 200 =>
            /\ resp'.amount.type = "number" /\ resp'.amount.val > 0
            /\ resp'.contractId.type = "string" /\ resp'.contractId.val # ""
            /\ resp'.milestoneId.type = "string" /\ resp'.milestoneId.val # ""
       /\ (resp'.amount.type = "number" /\ resp'.amount.val < 0) =>
            resp'.code = 400 /\ invoices' = invoices]_vars

\* C18: a poll for an id that createInvoice never returned answers 404 and
\* leaves the map as it was.
C18_UnknownNotFound ==
  [][(/\ HandlerStep("GET")
      /\ resp'.invoice_id.type = "string" /\ resp'.invoice_id.val # ""
      /\ resp'.invoice_id.val \notin IssuedIds) =>
       /\ resp'.code = 404
       /\ invoices' = invoices]_vars

\* C19: whatever the order of the timer callback and the polls, a record is
\* pending or paid, a paid record stays paid, and a poll for an issued id
\* answers with the record's status at that moment.
C19_PollSeesPendingOrPaid ==
  [][/\ \A id \in IssuedIds :
          /\ id \in DOMAIN invoices'
          /\ invoices[id].status \in {"pending", "paid"}
          /\ invoices[id].status = "paid" => invoices'[id].status = "paid"
     /\ (/\ HandlerStep("GET")
         /\ resp'.invoice_id.type = "string"
         /\ resp'.invoice_id.val \in IssuedIds) =>
          /\ resp'.code = 200
          /\ resp'.status = invoices[resp'.invoice_id.val].status
          /\ resp'.status \in {"pending", "paid"}
          /\ invoices' = invoices]_vars

\* a poll answered pending at the moment the callback is due to run
C19_Witness ==
  \E tm \in timers :
    /\ clock >= tm.due
    /\ resp.method = "GET" /\ resp.invoice_id = Str(tm.id)
    /\ resp.status = "pending"

\* C20: a request with a method other than POST and GET is answered 405 and
\* leaves the map and the timers as they were.
C20_OtherMethodsRefused ==
  [][(resp'.seq # resp.seq /\ resp'.method \notin {"POST", "GET"}) =>
       /\ resp'.code = 405
       /\ invoices' = invoices
       /\ timers' = timers]_vars

\* a PUT was refused while an invoice exists
C20_Witness ==
  /\ resp.method = "PUT" /\ resp.code = 405
  /\ IssuedIds # {}

\* ==================================== properties: hire, second part
\* C21: the contract a hire inserts links the project's id, the project's
\* client_id and the chosen proposal's freelancer_id, is active, and its
\* total_amount is the proposal's proposed_budget when there is one and the
\* project's budget otherwise.
C21_ContractRow ==
  [][\A s \in Sessions :
       (review[s].pc = "insert" /\ review'[s].pc = "updProject") =>
         LET c == contracts'[Len(contracts')]
             chosen == proposals[review[s].actionLoading]
         IN /\ Len(contracts') = Len(contracts) + 1
            /\ c.project_id = chosen.project_id
            /\ c.client_id = projClient[chosen.project_id]
            /\ c.freelancer_id = chosen.freelancer_id
            /\ c.status = "active"
            /\ chosen.proposed_budget # 0 => c.total_amount = chosen.proposed_budget
            /\ chosen.proposed_budget = 0 => c.total_amount = projBudget[chosen.project_id]]_vars

\* one contract took the proposal's budget and one, of a proposal without a
\* budget, the project's
C21_Witness ==
  \E c, e \in 1..Len(contracts), p, q \in 1..Len(proposals) :
    /\ proposals[p].proposed_budget = 0
    /\ contracts[c].freelancer_id = proposals[p].freelancer_id
    /\ contracts[c].total_amount = projBudget[1]
    /\ proposals[q].proposed_budget # 0
    /\ contracts[e].freelancer_id = proposals[q].freelancer_id
    /\ contracts[e].total_amount = proposals[q].proposed_budget

\* C22: a proposal is only ever inserted for a project whose stored status
\* is open.
C22_ProposalOnlyForOpenProject ==
  [][Len(proposals') > Len(proposals) =>
       projStatus[proposals'[Len(proposals')].project_id] = "open"]_vars

\* the projects the browse-jobs query returns
fetchProjects == {P \in Projects : projStatus[P] = "open"}

\* C23: once a page has completed a hire on its project, the browse-jobs
\* query omits the project, and every proposal the page lists as rejected
\* is rejected in the store.
C23_HireVisibleToOthers ==
  \A s \in Sessions :
    review[s].message = "success" =>
      /\ review[s].id \notin fetchProjects
      /\ \A i \in ProposalsOf(review[s].id) :
           review[s].props[i] = "rejected" => proposals[i].status = "rejected"

\* C24: a hire inserts a contract only for a project that has none yet, so
\* a retry after an attempt that stopped part-way adds no second contract.
C24_RetryInsertsNoSecondContract ==
  [][\A s \in Sessions :
       (review[s].pc = "insert" /\ Len(contracts') > Len(contracts)) =>
         ContractsOf(review[s].id) = {}]_vars

\* session s has written to the store in its current handleHire and has
\* writes of it still to come
MidHire(s) == review[s].pc \in {"updProject", "accept", "reject"}

\* C25: a hire writes to the store only while no other hire on the same
\* project stands between two of its writes.
C25_NoInterleavedWrites ==
  [][\A s, r \in Sessions :
       (/\ s # r
        /\ review[s].id = review[r].id
        /\ review[s].pc \in HireStages /\ review'[s].pc # review[s].pc
        /\ <<projStatus, proposals, contracts>>' # <<projStatus, proposals, contracts>>)
         => ~MidHire(r)]_vars

\* C26: when handleHire ends after a store call of it returned an error, a
\* failure message is shown, and the page changes the status it displays
\* for a proposal only if the update of that proposal succeeded.
C26_DisplayFollowsStore ==
  [][\A s \in Sessions :
       HireEnds(s) =>
         /\ review'[s].errs # {} => review'[s].message \notin {NULL, "success"}
         /\ \A i \in ProposalIds :
              review'[s].props[i] # review[s].props[i] =>
                IF i = review[s].actionLoading
                  THEN "accept" \notin review'[s].errs
                  ELSE "reject" \notin review'[s].errs]_vars

\* ================================ properties: milestones and invoices
\* C27: a step that stores a milestone as funded is the one milestones
\* update of a Fund request: it changes that milestone only and leaves the
\* invoices, the timers and the endpoint's last response as they were.
C27_FundTouchesNoInvoice ==
  [][\A m \in Milestones :
       (msStatus'[m] = "funded" /\ msStatus[m] # "funded") =>
         /\ \E d \in DashSessions :
              /\ dash[d].pc = "update" /\ dash[d].mid = m
              /\ dash[d].newStatus = "funded"
              /\ dash'[d].pc = "contract"
         /\ \A n \in Milestones \ {m} : msStatus'[n] = msStatus[n]
         /\ <<invoices, timers, resp>>' = <<invoices, timers, resp>>]_vars

\* a Fund request has just stored its milestone as funded while every
\* invoice the endpoint has issued is still pending
C27_Witness ==
  /\ \E d \in DashSessions :
       /\ dash[d].pc = "contract" /\ dash[d].actionLoading
       /\ dash[d].newStatus = "funded" /\ msStatus[dash[d].mid] = "funded"
  /\ IssuedIds # {}
  /\ \A id \in IssuedIds : invoices[id].status = "pending"

\* ==================================== properties: hire, third part
\* C28: when the contract insert of a hire returns an error, handleHire ends
\* at that step: the store is as it was, the page lists the project and the
\* proposals as before, and it shows the error message.
C28_InsertFailureStops ==
  [][\A s \in Sessions :
       (InsertStep(s) /\ "insert" \in review'[s].errs) =>
         /\ review'[s].pc = "ready"
         /\ <<projStatus, proposals, contracts>>' = <<projStatus, proposals, contracts>>
         /\ review'[s].status = review[s].status
         /\ review'[s].props = review[s].props
         /\ review'[s].message = "insertError"]_vars

\* a hire ended on its failed contract insert, the project still open and
\* the proposal still pending
C28_Witness ==
  \E s \in Sessions :
    /\ review[s].pc = "ready" /\ review[s].errs = {"insert"}
    /\ review[s].message = "insertError"
    /\ projStatus[review[s].id] = "open"
    /\ \E i \in ProposalsOf(review[s].id) : proposals[i].status = "pending"

\* ================================ properties: the in-flight flag
\* C29: while actionLoading is set on a page none of its Hire / Fund /
\* Submit / Release buttons is enabled, it is set only while the handler is
\* running, and whenever handleHire or updateMilestoneStatus has ended, by
\* whichever path, it is reset.
C29_InFlightFlag ==
  /\ \A s \in Sessions :
       /\ review[s].actionLoading # 0 =>
            /\ review[s].pc \in HireStages
            /\ \A p \in ProposalIds : ~HireButton(s, p)
       /\ review[s].pc \in {"closed", "ready"} => review[s].actionLoading = 0
  /\ \A d \in DashSessions :
       /\ dash[d].actionLoading =>
            /\ dash[d].pc \in {"update", "contract", "milestones"}
            /\ \A m \in Milestones, st \in {"funded", "released", "in_review"} :
                 ~ActionButton(d, m, st)
       /\ dash[d].pc \in {"closed", "ready"} => ~dash[d].actionLoading

\* a hire has ended on a store error and a milestone update on a failed
\* reload, and on both pages the buttons are enabled again
C29_Witness ==
  \E s \in Sessions, d \in DashSessions :
    /\ review[s].pc = "ready" /\ review[s].errs = {"update"}
    /\ \E p \in ProposalIds : HireButton(s, p)
    /\ dash[d].pc = "ready" /\ dash[d].error = "loadError"
    /\ \E m \in Milestones : msStatus[m] = "funded" /\ ActionButton(d, m, "funded")
====
